---- MODULE Spec2Model ----
(***************************************************************************)
(* Model of github.com/nao1215/hasher: the Hash facade (NewHash, Generate, *)
(* Compare), the options that select its adapter, and the adapters         *)
(* (md5sumHasher, hasher, hasher32, hasher64, blake3Hasher, pHasher and    *)
(* the userHash of the tests).  h, opts, input and call are one caller's   *)
(* view: the Hash, the options it was built from, the caller's input value *)
(* and the record of the last call.  procs holds the callers that use the  *)
(* Hash at the same time, each with the frame of its call in progress.     *)
(* cli is a run of the hasher command (cmd/hasher), heap the memory of a    *)
(* program that holds several Hashes and the digests returned to it.       *)
(*                                                                         *)
(* The mathematics of the hash engines, the image decoder and the          *)
(* perceptual fingerprint belong to external libraries.  An engine is      *)
(* modelled by its hash.Hash contract (New, Write, Sum): Adler-32 is       *)
(* computed exactly, every other engine by a stand-in fold with the        *)
(* engine's own digest width and a seed of its own.                        *)
(***************************************************************************)
EXTENDS Integers, Sequences, FiniteSets, TLC

VARIABLES h, opts, input, call, procs, cli, heap

vars == <<h, opts, input, call, procs, cli, heap>>

\* ---------------------------------------------------------------- bounds
\* longest content of a string or a stream
MaxLen == 2
\* largest number of bytes one Read of a stream delivers
MaxChunk == 2
\* longest option list given to NewHash
MaxOpts == 2
\* largest number of objects (Hashes and digests) the callers hold
MaxObjects == 3

\* ---------------------------------------------------------------- values
Min(a, b) == IF a < b THEN a ELSE b

\* "test" and "mism" (the texts of the tests) and a JPEG header followed by
\* payload bytes; contents are their prefixes
TextTest == <<116, 101, 115, 116>>
TextMism == <<109, 105, 115, 109>>
JpegMagic == <<255, 216>>
ImageData == JpegMagic \o <<7, 9>>

Prefixes(s) == {SubSeq(s, 1, n) : n \in 0..Min(MaxLen, Len(s))}

Contents == Prefixes(TextTest) \cup Prefixes(TextMism) \cup Prefixes(ImageData)

\* a Go []byte: the nil slice and the empty slice are different values that
\* bytes.Equal treats alike
NilSlice == [nil |-> TRUE, b |-> <<>>]
Slice(bs) == [nil |-> FALSE, b |-> bs]

\* error values; errors.Is compares the kind, msg is the text after it
NoErr == [kind |-> "nil", msg |-> ""]
ErrUnsupportedInputType == [kind |-> "ErrUnsupportedInputType", msg |-> ""]
ErrHashMismatch == [kind |-> "ErrHashMismatch", msg |-> ""]
ErrPhashNotSupportedString == [kind |-> "ErrPhashNotSupportedString", msg |-> ""]
\* io.EOF, the error a failing stream reports, image.ErrFormat
EOF == [kind |-> "EOF", msg |-> ""]
ErrRead == [kind |-> "ErrRead", msg |-> ""]
ErrFormat == [kind |-> "image.ErrFormat", msg |-> ""]

\* mutant: the text does not carry the type
Wrap_NoType(err, typ) == [kind |-> err.kind, msg |-> ""]

\* fmt.Errorf("%w: %T", err, v): wraps err, the text carries v's type
Wrap(err, typ) == [kind |-> err.kind, msg |-> typ]
ErrorsIs(err, target) == err.kind = target.kind

\* ---------------------------------------------------------------- inputs
\* An input value of type any.  type is its dynamic type (%T); a string
\* carries data; an io.Reader carries the stream's data, the read position,
\* the most bytes one Read delivers, and the position at which Read fails
\* (NoFail: never).
NoFail == 0 - 1
StringInput(s) == [type |-> "string", data |-> s, pos |-> 0, chunk |-> 0, failAt |-> NoFail]
ReaderInput(d, c, f) == [type |-> "io.Reader", data |-> d, pos |-> 0, chunk |-> c, failAt |-> f]
OtherInput(t) == [type |-> t, data |-> <<>>, pos |-> 0, chunk |-> 0, failAt |-> NoFail]

Strings == {StringInput(s) : s \in Contents}
Readers == {ReaderInput(d, c, f) : d \in Contents, c \in 1..MaxChunk, f \in (0 - 1)..MaxLen}
Others == {OtherInput(t) : t \in {"int", "[]uint8", "<nil>"}}
Inputs == Strings \cup {r \in Readers : r.failAt <= Len(r.data)} \cup Others

\* io.Reader.Read: (bytes delivered, error, the reader afterwards)
Read(r) ==
    IF r.failAt = r.pos THEN [p |-> <<>>, err |-> ErrRead, r |-> r]
    ELSE IF r.pos >= Len(r.data) THEN [p |-> <<>>, err |-> EOF, r |-> r]
    ELSE LET left == Len(r.data) - r.pos
             upto == IF r.failAt > r.pos THEN r.failAt - r.pos ELSE left
             n == Min(r.chunk, Min(left, upto))
         IN [p |-> SubSeq(r.data, r.pos + 1, r.pos + n), err |-> NoErr,
             r |-> [r EXCEPT !.pos = r.pos + n]]

\* ---------------------------------------------------------------- engines
\* mutant: every engine is as wide as MD5
Size_AllMd5(new) == IF new = "none" THEN 0 ELSE 16

\* digest width in bytes of the engine each constructor returns
Size(new) ==
    CASE new = "md5.New" -> 16
      [] new = "sha1.New" -> 20
      [] new = "sha256.New" -> 32
      [] new = "sha512.New" -> 64
      [] new \in {"crc32.NewIEEE", "adler32.New", "fnv.New32", "fnv.New32a"} -> 4
      [] new \in {"xxhash.New", "fnv.New64", "fnv.New64a"} -> 8
      [] new \in {"fnv.New128", "fnv.New128a", "mmh3.New128"} -> 16
      [] new \in {"whirlpool.New", "blake3.New"} -> 64

Seed(new) ==
    CASE new = "adler32.New" -> 1
      [] new = "md5.New" -> 103
      [] new = "sha1.New" -> 211
      [] new = "sha256.New" -> 307
      [] new = "sha512.New" -> 401
      [] new = "crc32.NewIEEE" -> 503
      [] new = "fnv.New32" -> 601
      [] new = "fnv.New32a" -> 701
      [] new = "xxhash.New" -> 809
      [] new = "fnv.New64" -> 907
      [] new = "fnv.New64a" -> 1009
      [] new = "fnv.New128" -> 1103
      [] new = "fnv.New128a" -> 1201
      [] new = "mmh3.New128" -> 1301
      [] new = "whirlpool.New" -> 1409
      [] new = "blake3.New" -> 1511

\* a fresh engine
NewEngine(new) == [new |-> new, a |-> Seed(new), b |-> 0]

\* the two running sums of Adler-32, modulo 65521
RECURSIVE Fold(_, _, _)
Fold(a, b, p) ==
    IF p = <<>> THEN <<a, b>>
    ELSE LET a2 == (a + Head(p)) % 65521
         IN Fold(a2, (b + a2) % 65521, Tail(p))

\* hash.Hash.Write: folds p into the engine; it never returns an error
Folded(e, ab, n) == [eng |-> [e EXCEPT !.a = ab[1], !.b = ab[2]], n |-> n, err |-> NoErr]

Write(e, p) == Folded(e, Fold(e.a, e.b, p), Len(p))

\* hash.Hash.Sum(nil): a newly allocated slice of Size bytes
Sum(e) ==
    IF e.new = "adler32.New"
    THEN Slice(<<e.b \div 256, e.b % 256, e.a \div 256, e.a % 256>>)
    ELSE Slice([i \in 1..Size(e.new) |->
                 ((e.a % 256) * i + (e.a \div 256) + (e.b % 256) * (i + 3) + (e.b \div 256) + i) % 256])

\* io.Copy(dst, src): Read until EOF or an error, Write every chunk read
RECURSIVE IoCopy(_, _)

\* if nr > 0 { dst.Write(buf[0:nr]) }
IoCopyWrite(e, rd) == IF Len(rd.p) > 0 THEN Write(e, rd.p) ELSE [eng |-> e, n |-> 0, err |-> NoErr]

\* mutant: a single Read in place of the copy loop
IoCopyNext_Once(wr, rd) ==
    [eng |-> wr.eng, r |-> rd.r,
     err |-> IF wr.err # NoErr THEN wr.err ELSE IF rd.err = EOF THEN NoErr ELSE rd.err]

\* mutant: the end of the stream is returned as an error
IoCopyNext_EofIsError(wr, rd) ==
    IF wr.err # NoErr THEN [eng |-> wr.eng, r |-> rd.r, err |-> wr.err]
    ELSE IF rd.err # NoErr THEN [eng |-> wr.eng, r |-> rd.r, err |-> rd.err]
    ELSE IoCopy(wr.eng, rd.r)

\* after the Write: stop at a write error, at EOF (no error) or at a read
\* error, else read on
IoCopyNext(wr, rd) ==
    IF wr.err # NoErr THEN [eng |-> wr.eng, r |-> rd.r, err |-> wr.err]
    ELSE IF rd.err # NoErr
         THEN [eng |-> wr.eng, r |-> rd.r, err |-> IF rd.err = EOF THEN NoErr ELSE rd.err]
         ELSE IoCopy(wr.eng, rd.r)

IoCopyRead(e, rd) == IoCopyNext(IoCopyWrite(e, rd), rd)

IoCopy(e, r) == IoCopyRead(e, Read(r))

\* bytes.Equal
BytesEqual(x, y) == x.b = y.b

\* ---------------------------------------------------------------- adapters
\* What an adapter operation yields: the digest and error it returns, the
\* stream as the call leaves it, and whether image.Decode was entered.
Ret(d, e, r, dec) == [digest |-> d, err |-> e, r |-> r, decoded |-> dec]

\* An adapter value: the Go type behind the Hasher interface and, for the
\* generic shapes, its HashFunc field.
Adapter(t, f) == [type |-> t, HashFunc |-> f]
NilAdapter == Adapter("nil", "none")

\* mutant: the stream is left as it was before the copy
SummedCopy_Rewound(c) ==
    IF c.err # NoErr THEN Ret(NilSlice, c.err, [c.r EXCEPT !.pos = 0], FALSE)
    ELSE Ret(Sum(c.eng), NoErr, [c.r EXCEPT !.pos = 0], FALSE)

\* mutant: the digest of what was read is returned in spite of the error
Summed_Partial(x, r) == Ret(Sum(x.eng), NoErr, r, FALSE)

\* the tail of every GenHashFrom*: if err != nil { return nil, err };
\* return h.Sum(nil), nil.  x is what Write or io.Copy left, r the input then.
Summed(x, r) ==
    IF x.err # NoErr THEN Ret(NilSlice, x.err, r, FALSE)
    ELSE Ret(Sum(x.eng), NoErr, r, FALSE)

SummedCopy(c) == Summed(c, c.r)

\* the tail of every CmpHashAnd*: if err != nil { return err };
\* if !bytes.Equal(hashA, hashB) { return ErrHashMismatch }; return nil
Compared(hashA, g) ==
    IF g.err # NoErr THEN Ret(NilSlice, g.err, g.r, g.decoded)
    ELSE IF ~BytesEqual(hashA, g.digest) THEN Ret(NilSlice, ErrHashMismatch, g.r, g.decoded)
    ELSE Ret(NilSlice, NoErr, g.r, g.decoded)

\* mutant: the digest given is only required to be a prefix of the computed one
Compared_Prefix(hashA, g) ==
    IF g.err # NoErr THEN Ret(NilSlice, g.err, g.r, g.decoded)
    ELSE IF Len(hashA.b) > Len(g.digest.b) \/ SubSeq(g.digest.b, 1, Len(hashA.b)) # hashA.b
         THEN Ret(NilSlice, ErrHashMismatch, g.r, g.decoded)
    ELSE Ret(NilSlice, NoErr, g.r, g.decoded)

\* mutant: the test of bytes.Equal is inverted
Compared_Inverted(hashA, g) ==
    IF g.err # NoErr THEN Ret(NilSlice, g.err, g.r, g.decoded)
    ELSE IF BytesEqual(hashA, g.digest) THEN Ret(NilSlice, ErrHashMismatch, g.r, g.decoded)
    ELSE Ret(NilSlice, NoErr, g.r, g.decoded)

\* mutant: a failed generation is answered like a digest that does not match
Compared_ErrAsMismatch(hashA, g) ==
    IF g.err # NoErr \/ ~BytesEqual(hashA, g.digest)
    THEN Ret(NilSlice, ErrHashMismatch, g.r, g.decoded)
    ELSE Ret(NilSlice, NoErr, g.r, g.decoded)

\* --- md5sumHasher
md5sumHasher_GenHashFromString(s) ==
    Summed(Write(NewEngine("md5.New"), s.data), s)

md5sumHasher_GenHashFromIOReader(r) ==
    SummedCopy(IoCopy(NewEngine("md5.New"), r))

\* mutant: the digest given is only required to be a prefix of the computed one
md5sumHasher_CmpHashAndString_Prefix(hashA, s) ==
    Compared_Prefix(hashA, md5sumHasher_GenHashFromString(s))

md5sumHasher_CmpHashAndString(hashA, s) ==
    Compared(hashA, md5sumHasher_GenHashFromString(s))

md5sumHasher_CmpHashAndIOReader(hashA, r) ==
    Compared(hashA, md5sumHasher_GenHashFromIOReader(r))

\* --- hasher (HashFunc func() hash.Hash)
hasher_GenHashFromString(a, s) ==
    Summed(Write(NewEngine(a.HashFunc), s.data), s)

hasher_GenHashFromIOReader(a, r) ==
    SummedCopy(IoCopy(NewEngine(a.HashFunc), r))

hasher_CmpHashAndString(a, hashA, s) ==
    Compared(hashA, hasher_GenHashFromString(a, s))

\* mutant: the test of bytes.Equal is inverted
hasher_CmpHashAndIOReader_Inverted(a, hashA, r) ==
    Compared_Inverted(hashA, hasher_GenHashFromIOReader(a, r))

hasher_CmpHashAndIOReader(a, hashA, r) ==
    Compared(hashA, hasher_GenHashFromIOReader(a, r))

\* --- hasher32 (HashFunc func() hash.Hash32)
hasher32_GenHashFromString(a, s) ==
    Summed(Write(NewEngine(a.HashFunc), s.data), s)

hasher32_GenHashFromIOReader(a, r) ==
    SummedCopy(IoCopy(NewEngine(a.HashFunc), r))

hasher32_CmpHashAndString(a, hashA, s) ==
    Compared(hashA, hasher32_GenHashFromString(a, s))

hasher32_CmpHashAndIOReader(a, hashA, r) ==
    Compared(hashA, hasher32_GenHashFromIOReader(a, r))

\* --- hasher64 (HashFunc func() hash.Hash64)
hasher64_GenHashFromString(a, s) ==
    Summed(Write(NewEngine(a.HashFunc), s.data), s)

hasher64_GenHashFromIOReader(a, r) ==
    SummedCopy(IoCopy(NewEngine(a.HashFunc), r))

hasher64_CmpHashAndString(a, hashA, s) ==
    Compared(hashA, hasher64_GenHashFromString(a, s))

\* mutant: the test of bytes.Equal is inverted
hasher64_CmpHashAndIOReader_Inverted(a, hashA, r) ==
    Compared_Inverted(hashA, hasher64_GenHashFromIOReader(a, r))

hasher64_CmpHashAndIOReader(a, hashA, r) ==
    Compared(hashA, hasher64_GenHashFromIOReader(a, r))

\* --- blake3Hasher (blake3.New(64, nil))
blake3Hasher_GenHashFromString(s) ==
    Summed(Write(NewEngine("blake3.New"), s.data), s)

blake3Hasher_GenHashFromIOReader(r) ==
    SummedCopy(IoCopy(NewEngine("blake3.New"), r))

blake3Hasher_CmpHashAndString(hashA, s) ==
    Compared(hashA, blake3Hasher_GenHashFromString(s))

blake3Hasher_CmpHashAndIOReader(hashA, r) ==
    Compared(hashA, blake3Hasher_GenHashFromIOReader(r))

\* --- shaHasher (HashFunc func() hash.Hash), the adapter of the SHA family
\* before hasher took its place
shaHasher_GenHashFromString(a, s) ==
    Summed(Write(NewEngine(a.HashFunc), s.data), s)

shaHasher_GenHashFromIOReader(a, r) ==
    SummedCopy(IoCopy(NewEngine(a.HashFunc), r))

shaHasher_CmpHashAndString(a, hashA, s) ==
    Compared(hashA, shaHasher_GenHashFromString(a, s))

shaHasher_CmpHashAndIOReader(a, hashA, r) ==
    Compared(hashA, shaHasher_GenHashFromIOReader(a, r))

\* --- fnv32Hasher (fnv.New32()), the adapter of FNV-32 before hasher32 took
\* its place
fnv32Hasher_GenHashFromString(s) ==
    Summed(Write(NewEngine("fnv.New32"), s.data), s)

fnv32Hasher_GenHashFromIOReader(r) ==
    SummedCopy(IoCopy(NewEngine("fnv.New32"), r))

fnv32Hasher_CmpHashAndString(hashA, s) ==
    Compared(hashA, fnv32Hasher_GenHashFromString(s))

fnv32Hasher_CmpHashAndIOReader(hashA, r) ==
    Compared(hashA, fnv32Hasher_GenHashFromIOReader(r))

\* --- pHasher
\* reads the stream to its end or to its first error
RECURSIVE ReadAll(_, _)
ReadMore(rd, acc) ==
    IF rd.err # NoErr
    THEN [p |-> acc \o rd.p, r |-> rd.r, err |-> IF rd.err = EOF THEN NoErr ELSE rd.err]
    ELSE ReadAll(rd.r, acc \o rd.p)

ReadAll(r, acc) == ReadMore(Read(r), acc)

HasMagic(p) == Len(p) >= Len(JpegMagic) /\ SubSeq(p, 1, Len(JpegMagic)) = JpegMagic

\* image.Decode(r): the format is sniffed from the header bytes; without a
\* known header the result is image.ErrFormat, a read error after the header
\* is returned as it is
Decoded(a) ==
    IF ~HasMagic(a.p) THEN [img |-> <<>>, err |-> ErrFormat, r |-> a.r]
    ELSE IF a.err # NoErr THEN [img |-> <<>>, err |-> a.err, r |-> a.r]
    ELSE [img |-> a.p, err |-> NoErr, r |-> a.r]

ImageDecode(r) == Decoded(ReadAll(r, <<>>))

\* A uint64 is kept as its four 16-bit words, the least significant first.
\* phash.DTC(img): the 64-bit fingerprint, a stand-in that fills all 64 bits
Packed(ab) == <<ab[1], ab[2], (ab[1] + 3 * ab[2]) % 65536, (7 * ab[1] + ab[2]) % 65536>>

DTC(img) == Packed(Fold(977, 0, img))

\* v >> 8
Shr8(v) == [k \in 1..4 |-> (v[k] \div 256) + 256 * (IF k < 4 THEN v[k + 1] % 256 ELSE 0)]

\* v >> (8 * i)
RECURSIVE ShiftRight8(_, _)
ShiftRight8(v, i) == IF i = 0 THEN v ELSE ShiftRight8(Shr8(v), i - 1)

\* mutant: the most significant byte first
PutUint64LE_BigEndian(v) == Slice([i \in 1..8 |-> ShiftRight8(v, 8 - i)[1] % 256])

\* binary.LittleEndian.PutUint64 into make([]byte, 8): b[i] = byte(v >> (8 * i))
PutUint64LE(v) == Slice([i \in 1..8 |-> ShiftRight8(v, i - 1)[1] % 256])

pHasher_GenHashFromString(s) == Ret(NilSlice, ErrPhashNotSupportedString, s, FALSE)

\* mutant: a string is answered like a digest that does not match
pHasher_CmpHashAndString_Mismatch(hashA, s) == Ret(NilSlice, ErrHashMismatch, s, FALSE)

pHasher_CmpHashAndString(hashA, s) == Ret(NilSlice, ErrPhashNotSupportedString, s, FALSE)

\* if err != nil { return nil, err }; the fingerprint in 8 bytes
Fingerprinted(d) ==
    IF d.err # NoErr THEN Ret(NilSlice, d.err, d.r, TRUE)
    ELSE Ret(PutUint64LE(DTC(d.img)), NoErr, d.r, TRUE)

\* mutant: the error of image.Decode is dropped
Fingerprinted_NoCheck(d) == Ret(PutUint64LE(DTC(d.img)), NoErr, d.r, TRUE)

\* mutant: the error of image.Decode is dropped
pHasher_GenHashFromIOReader_NoCheck(r) == Fingerprinted_NoCheck(ImageDecode(r))

pHasher_GenHashFromIOReader(r) == Fingerprinted(ImageDecode(r))

\* mutant: a failed generation is answered like a digest that does not match
pHasher_CmpHashAndIOReader_ErrAsMismatch(hashA, r) ==
    Compared_ErrAsMismatch(hashA, pHasher_GenHashFromIOReader(r))

pHasher_CmpHashAndIOReader(hashA, r) ==
    Compared(hashA, pHasher_GenHashFromIOReader(r))

\* --- userHash, the user-defined adapter of the tests
userHash_GenHashFromString(s) == Ret(Slice(<<116, 101, 115, 116>>), NoErr, s, FALSE)

userHash_GenHashFromIOReader(r) == Ret(Slice(<<116, 101, 115, 116>>), NoErr, r, FALSE)

userHash_CmpHashAndString(hashA, s) == Ret(NilSlice, NoErr, s, FALSE)

userHash_CmpHashAndIOReader(hashA, r) == Ret(NilSlice, NoErr, r, FALSE)

\* --- the Hasher interface: a method call runs the method of the dynamic type
Hasher_GenHashFromString(a, s) ==
    CASE a.type = "md5sumHasher" -> md5sumHasher_GenHashFromString(s)
      [] a.type = "hasher" -> hasher_GenHashFromString(a, s)
      [] a.type = "hasher32" -> hasher32_GenHashFromString(a, s)
      [] a.type = "hasher64" -> hasher64_GenHashFromString(a, s)
      [] a.type = "blake3Hasher" -> blake3Hasher_GenHashFromString(s)
      [] a.type = "pHasher" -> pHasher_GenHashFromString(s)
      [] a.type = "userHash" -> userHash_GenHashFromString(s)

Hasher_GenHashFromIOReader(a, r) ==
    CASE a.type = "md5sumHasher" -> md5sumHasher_GenHashFromIOReader(r)
      [] a.type = "hasher" -> hasher_GenHashFromIOReader(a, r)
      [] a.type = "hasher32" -> hasher32_GenHashFromIOReader(a, r)
      [] a.type = "hasher64" -> hasher64_GenHashFromIOReader(a, r)
      [] a.type = "blake3Hasher" -> blake3Hasher_GenHashFromIOReader(r)
      [] a.type = "pHasher" -> pHasher_GenHashFromIOReader(r)
      [] a.type = "userHash" -> userHash_GenHashFromIOReader(r)

Hasher_CmpHashAndString(a, hashA, s) ==
    CASE a.type = "md5sumHasher" -> md5sumHasher_CmpHashAndString(hashA, s)
      [] a.type = "hasher" -> hasher_CmpHashAndString(a, hashA, s)
      [] a.type = "hasher32" -> hasher32_CmpHashAndString(a, hashA, s)
      [] a.type = "hasher64" -> hasher64_CmpHashAndString(a, hashA, s)
      [] a.type = "blake3Hasher" -> blake3Hasher_CmpHashAndString(hashA, s)
      [] a.type = "pHasher" -> pHasher_CmpHashAndString(hashA, s)
      [] a.type = "userHash" -> userHash_CmpHashAndString(hashA, s)

Hasher_CmpHashAndIOReader(a, hashA, r) ==
    CASE a.type = "md5sumHasher" -> md5sumHasher_CmpHashAndIOReader(hashA, r)
      [] a.type = "hasher" -> hasher_CmpHashAndIOReader(a, hashA, r)
      [] a.type = "hasher32" -> hasher32_CmpHashAndIOReader(a, hashA, r)
      [] a.type = "hasher64" -> hasher64_CmpHashAndIOReader(a, hashA, r)
      [] a.type = "blake3Hasher" -> blake3Hasher_CmpHashAndIOReader(hashA, r)
      [] a.type = "pHasher" -> pHasher_CmpHashAndIOReader(hashA, r)
      [] a.type = "userHash" -> userHash_CmpHashAndIOReader(hashA, r)

\* ---------------------------------------------------------------- facade
\* What a facade call yields: the Hash and the input as the call leaves
\* them, the values returned, the adapter operations the facade invoked (in
\* order), whether image.Decode was entered, and whether the call panicked
\* (a method call on a nil Hasher).
Out(hh, in, d, e, tr, dec, pn) ==
    [h |-> hh, input |-> in, digest |-> d, err |-> e, trace |-> tr, decoded |-> dec, panic |-> pn]

Delegated(hh, op, res) == Out(hh, res.r, res.digest, res.err, <<op>>, res.decoded, FALSE)
Panicked(hh, in, op) == Out(hh, in, NilSlice, NoErr, <<op>>, FALSE, TRUE)

\* mutant: a []byte is taken for a string
Generate_BytesAsString(hh, in) ==
    CASE in.type \in {"string", "[]uint8"} ->
            IF hh.hasher = NilAdapter THEN Panicked(hh, in, "GenHashFromString")
            ELSE Delegated(hh, "GenHashFromString", Hasher_GenHashFromString(hh.hasher, in))
      [] in.type = "io.Reader" ->
            IF hh.hasher = NilAdapter THEN Panicked(hh, in, "GenHashFromIOReader")
            ELSE Delegated(hh, "GenHashFromIOReader", Hasher_GenHashFromIOReader(hh.hasher, in))
      [] OTHER ->
            Out(hh, in, NilSlice, Wrap(ErrUnsupportedInputType, in.type), <<>>, FALSE, FALSE)

\* mutant: a failed call puts the default adapter back
Generate_Resetting(hh, in) ==
    CASE in.type = "string" ->
            IF hh.hasher = NilAdapter THEN Panicked(hh, in, "GenHashFromString")
            ELSE Delegated(hh, "GenHashFromString", Hasher_GenHashFromString(hh.hasher, in))
      [] in.type = "io.Reader" ->
            IF hh.hasher = NilAdapter THEN Panicked(hh, in, "GenHashFromIOReader")
            ELSE Delegated(hh, "GenHashFromIOReader", Hasher_GenHashFromIOReader(hh.hasher, in))
      [] OTHER ->
            Out([hh EXCEPT !.hasher = Adapter("md5sumHasher", "none")], in, NilSlice,
                Wrap(ErrUnsupportedInputType, in.type), <<>>, FALSE, FALSE)

Generate(hh, in) ==
    CASE in.type = "string" ->
            IF hh.hasher = NilAdapter THEN Panicked(hh, in, "GenHashFromString")
            ELSE Delegated(hh, "GenHashFromString", Hasher_GenHashFromString(hh.hasher, in))
      [] in.type = "io.Reader" ->
            IF hh.hasher = NilAdapter THEN Panicked(hh, in, "GenHashFromIOReader")
            ELSE Delegated(hh, "GenHashFromIOReader", Hasher_GenHashFromIOReader(hh.hasher, in))
      [] OTHER ->
            Out(hh, in, NilSlice, Wrap(ErrUnsupportedInputType, in.type), <<>>, FALSE, FALSE)

\* mutant: the facade generates and compares by itself
ComparedByFacade(hash, g) ==
    IF g.panic \/ g.err # NoErr THEN g
    ELSE [g EXCEPT !.digest = NilSlice,
                   !.err = IF BytesEqual(hash, g.digest) THEN NoErr ELSE ErrHashMismatch]

Compare_ViaGenerate(hh, hash, in) == ComparedByFacade(hash, Generate(hh, in))

\* mutant: the adapter is asked before the input is rejected
Compare_ProbingAdapter(hh, hash, in) ==
    CASE in.type = "string" ->
            IF hh.hasher = NilAdapter THEN Panicked(hh, in, "CmpHashAndString")
            ELSE Delegated(hh, "CmpHashAndString", Hasher_CmpHashAndString(hh.hasher, hash, in))
      [] in.type = "io.Reader" ->
            IF hh.hasher = NilAdapter THEN Panicked(hh, in, "CmpHashAndIOReader")
            ELSE Delegated(hh, "CmpHashAndIOReader", Hasher_CmpHashAndIOReader(hh.hasher, hash, in))
      [] OTHER ->
            Out(hh, in, NilSlice, Wrap(ErrUnsupportedInputType, in.type), <<"CmpHashAndString">>,
                FALSE, FALSE)

Compare(hh, hash, in) ==
    CASE in.type = "string" ->
            IF hh.hasher = NilAdapter THEN Panicked(hh, in, "CmpHashAndString")
            ELSE Delegated(hh, "CmpHashAndString", Hasher_CmpHashAndString(hh.hasher, hash, in))
      [] in.type = "io.Reader" ->
            IF hh.hasher = NilAdapter THEN Panicked(hh, in, "CmpHashAndIOReader")
            ELSE Delegated(hh, "CmpHashAndIOReader", Hasher_CmpHashAndIOReader(hh.hasher, hash, in))
      [] OTHER ->
            Out(hh, in, NilSlice, Wrap(ErrUnsupportedInputType, in.type), <<>>, FALSE, FALSE)

\* ---------------------------------------------------------------- options
\* the adapters the constructors and the composite literals build
md5sumHasherLit == Adapter("md5sumHasher", "none")
blake3HasherLit == Adapter("blake3Hasher", "none")
pHasherLit == Adapter("pHasher", "none")
userHashLit == Adapter("userHash", "none")
newSHA1Hasher == Adapter("hasher", "sha1.New")
newSHA256Hasher == Adapter("hasher", "sha256.New")
newSHA512Hasher == Adapter("hasher", "sha512.New")
newCRC32Hasher == Adapter("hasher32", "crc32.NewIEEE")
newAdler32Hasher == Adapter("hasher32", "adler32.New")
newXXHasher == Adapter("hasher64", "xxhash.New")
newWhirlpoolHasher == Adapter("hasher", "whirlpool.New")
newMmh3Hasher == Adapter("hasher", "mmh3.New128")
newFnv128Hasher == Adapter("hasher", "fnv.New128")
newFnv128aHasher == Adapter("hasher", "fnv.New128a")
newFnv32Hasher == Adapter("hasher32", "fnv.New32")
newFnv32aHasher == Adapter("hasher32", "fnv.New32a")
newFnv64Hasher == Adapter("hasher64", "fnv.New64")
newFnv64aHasher == Adapter("hasher64", "fnv.New64a")

\* mutant: the Hasher given is not installed
WithUserDifinedAlgorithm_Ignored(hasher, hh) == hh

\* an Option is a func(*Hash); each definition is the effect of the closure
WithUserDifinedAlgorithm(hasher, hh) == [hh EXCEPT !.hasher = hasher]
WithMd5Sum(hh) == [hh EXCEPT !.hasher = md5sumHasherLit]
\* mutant: given a second time, the option puts the default back
WithSha1sum_Toggling(hh) ==
    IF hh.hasher = newSHA1Hasher THEN [hh EXCEPT !.hasher = md5sumHasherLit]
    ELSE [hh EXCEPT !.hasher = newSHA1Hasher]

WithSha1sum(hh) == [hh EXCEPT !.hasher = newSHA1Hasher]
WithSha256sum(hh) == [hh EXCEPT !.hasher = newSHA256Hasher]
WithSha512sum(hh) == [hh EXCEPT !.hasher = newSHA512Hasher]
WithPhash(hh) == [hh EXCEPT !.hasher = pHasherLit]
\* the options of the remaining built-in algorithms
WithCRC32(hh) == [hh EXCEPT !.hasher = newCRC32Hasher]
WithAdler32(hh) == [hh EXCEPT !.hasher = newAdler32Hasher]
WithXXHash(hh) == [hh EXCEPT !.hasher = newXXHasher]
WithWhirlpool(hh) == [hh EXCEPT !.hasher = newWhirlpoolHasher]
WithMmh3(hh) == [hh EXCEPT !.hasher = newMmh3Hasher]
WithBlake3(hh) == [hh EXCEPT !.hasher = blake3HasherLit]
WithFnv32(hh) == [hh EXCEPT !.hasher = newFnv32Hasher]
WithFnv32a(hh) == [hh EXCEPT !.hasher = newFnv32aHasher]
WithFnv64(hh) == [hh EXCEPT !.hasher = newFnv64Hasher]
WithFnv64a(hh) == [hh EXCEPT !.hasher = newFnv64aHasher]
WithFnv128(hh) == [hh EXCEPT !.hasher = newFnv128Hasher]
WithFnv128a(hh) == [hh EXCEPT !.hasher = newFnv128aHasher]

\* an option value: the option's name and, for the user-defined one, the
\* Hasher it was given
Opt(n, a) == [name |-> n, hasher |-> a]

BuiltinOptionNames ==
    {"WithMd5Sum", "WithSha1sum", "WithSha256sum", "WithSha512sum", "WithPhash",
     "WithCRC32", "WithAdler32", "WithXXHash", "WithWhirlpool", "WithMmh3", "WithBlake3",
     "WithFnv32", "WithFnv32a", "WithFnv64", "WithFnv64a", "WithFnv128", "WithFnv128a"}

Options ==
    {Opt(n, NilAdapter) : n \in BuiltinOptionNames}
        \cup {Opt("WithUserDifinedAlgorithm", a) : a \in {userHashLit, NilAdapter}}

\* opt(h)
ApplyOption(o, hh) ==
    CASE o.name = "WithUserDifinedAlgorithm" -> WithUserDifinedAlgorithm(o.hasher, hh)
      [] o.name = "WithMd5Sum" -> WithMd5Sum(hh)
      [] o.name = "WithSha1sum" -> WithSha1sum(hh)
      [] o.name = "WithSha256sum" -> WithSha256sum(hh)
      [] o.name = "WithSha512sum" -> WithSha512sum(hh)
      [] o.name = "WithPhash" -> WithPhash(hh)
      [] o.name = "WithCRC32" -> WithCRC32(hh)
      [] o.name = "WithAdler32" -> WithAdler32(hh)
      [] o.name = "WithXXHash" -> WithXXHash(hh)
      [] o.name = "WithWhirlpool" -> WithWhirlpool(hh)
      [] o.name = "WithMmh3" -> WithMmh3(hh)
      [] o.name = "WithBlake3" -> WithBlake3(hh)
      [] o.name = "WithFnv32" -> WithFnv32(hh)
      [] o.name = "WithFnv32a" -> WithFnv32a(hh)
      [] o.name = "WithFnv64" -> WithFnv64(hh)
      [] o.name = "WithFnv64a" -> WithFnv64a(hh)
      [] o.name = "WithFnv128" -> WithFnv128(hh)
      [] o.name = "WithFnv128a" -> WithFnv128a(hh)

\* mutant: only the first option is applied
ApplyOptions_First(hh, os) == IF os = <<>> THEN hh ELSE ApplyOption(Head(os), hh)

\* for _, opt := range opts { opt(h) }
RECURSIVE ApplyOptions(_, _)
ApplyOptions(hh, os) ==
    IF os = <<>> THEN hh ELSE ApplyOptions(ApplyOption(Head(os), hh), Tail(os))

\* mutant: the default adapter is SHA-1
NewHash_Sha1Default(os) == ApplyOptions([hasher |-> newSHA1Hasher], os)

NewHash(os) == ApplyOptions([hasher |-> md5sumHasherLit], os)

\* option lists of at most n options
OptionLists(n) == UNION {[1..k -> Options] : k \in 0..n}

\* ---------------------------------------------------------------- calls
\* The callers that use one Hash at the same time.  Each has the frame of
\* its call: where the call stands (pc), its arguments (op, hash, the input
\* as it was handed over), the input as it is now, the engine the adapter
\* created, and what the call returned.  prev (how the caller's call before
\* this one ended) and met (another call was in progress during this one)
\* record the history.
Callers == {"c1", "c2"}

NoEngine == [new |-> "none", a |-> 0, b |-> 0]

IdleProc ==
    [pc |-> "idle", op |-> "none", hash |-> NilSlice, before |-> OtherInput("<nil>"),
     input |-> OtherInput("<nil>"), eng |-> NoEngine, digest |-> NilSlice, err |-> NoErr,
     prev |-> "none", met |-> FALSE]

NoProcs == [i \in Callers |-> IdleProc]

\* the record of the facade call made last
NoCall ==
    [op |-> "none", hash |-> NilSlice, before |-> OtherInput("<nil>"), digest |-> NilSlice,
     err |-> NoErr, trace |-> <<>>, decoded |-> FALSE, panic |-> FALSE]

Called(op, hash, before, out) ==
    [op |-> op, hash |-> hash, before |-> before, digest |-> out.digest, err |-> out.err,
     trace |-> out.trace, decoded |-> out.decoded, panic |-> out.panic]

DropLast(d) == IF d.b = <<>> THEN d ELSE Slice(SubSeq(d.b, 1, Len(d.b) - 1))

\* the digests a caller hands to Compare with the input in: the one Generate
\* returns for it, that one cut short and extended, the nil and the empty
\* slice, the digest of another text, of the empty text and of an image
Tampered(g) == {g, DropLast(g), Slice(g.b \o <<0>>), NilSlice, Slice(<<>>)}

HashArgs(hh, in) ==
    IF hh.hasher = NilAdapter THEN {NilSlice}
    ELSE Tampered(Generate(hh, in).digest)
            \cup {Generate(hh, StringInput(SubSeq(TextMism, 1, 1))).digest,
                  Generate(hh, StringInput(<<>>)).digest,
                  Generate(hh, ReaderInput(JpegMagic, 1, NoFail)).digest}

\* the command before it is started
NoCli ==
    [pc |-> "none", help |-> FALSE, nargs |-> 0,
     file |-> [exists |-> FALSE, data |-> <<>>, failAt |-> NoFail],
     opened |-> FALSE, buf |-> ReaderInput(<<>>, 1, NoFail), todo |-> {},
     jsonMap |-> [n \in {} |-> <<>>], calls |-> 0, out |-> <<>>, err |-> NoErr]

\* no call made on the heap yet, and the heap before anything is allocated
NoRet ==
    [op |-> "none", on |-> 0, in |-> OtherInput("<nil>"), arg |-> 0, argWas |-> <<>>,
     buf |-> 0, nbufs |-> 0, err |-> NoErr]

NoHeap == [hashes |-> <<>>, made |-> <<>>, adapters |-> <<>>, bufs |-> <<>>, ret |-> NoRet]

\* the caller takes up another input value
NewInput ==
    /\ ~call.panic
    /\ input' \in Inputs
    /\ call' = NoCall
    /\ UNCHANGED <<h, opts, procs, cli, heap>>

\* digest, err := h.Generate(input)
Returns(op, hash, out) ==
    /\ h' = out.h
    /\ input' = out.input
    /\ call' = Called(op, hash, input, out)

GenerateCall ==
    /\ ~call.panic
    /\ Returns("Generate", NilSlice, Generate(h, input))
    /\ UNCHANGED <<opts, procs, cli, heap>>

\* err := h.Compare(hash, input)
CompareCall ==
    /\ ~call.panic
    /\ \E hash \in HashArgs(h, input) : Returns("Compare", hash, Compare(h, hash, input))
    /\ UNCHANGED <<opts, procs, cli, heap>>

\* h := NewHash() or h := NewHash(opt)
Init ==
    /\ opts \in OptionLists(1)
    /\ h = NewHash(opts)
    /\ input \in Inputs
    /\ call = NoCall
    /\ procs = NoProcs
    /\ cli = NoCli
    /\ heap = NoHeap

Next == NewInput \/ GenerateCall \/ CompareCall

Spec == Init /\ [][Next]_vars

\* NewHash with any option list; the caller then works with a few inputs
ProbeInputs ==
    {StringInput(SubSeq(TextTest, 1, 1)),
     ReaderInput(SubSeq(TextTest, 1, MaxLen), 1, NoFail),
     ReaderInput(SubSeq(TextMism, 1, MaxLen), MaxChunk, 1),
     ReaderInput(JpegMagic, MaxChunk, NoFail),
     OtherInput("int")}

NewProbe ==
    /\ ~call.panic
    /\ input' \in ProbeInputs
    /\ call' = NoCall
    /\ UNCHANGED <<h, opts, procs, cli, heap>>

InitOpts ==
    /\ opts \in OptionLists(MaxOpts)
    /\ h = NewHash(opts)
    /\ input \in ProbeInputs
    /\ call = NoCall
    /\ procs = NoProcs
    /\ cli = NoCli
    /\ heap = NoHeap

NextOpts == NewProbe \/ GenerateCall \/ CompareCall

SpecOpts == InitOpts /\ [][NextOpts]_vars

\* ---------------------------------------------------------------- callers
\* the positions of a call in progress
MidCall == {"feed", "decode", "sum", "cmp"}

\* the constructor an incremental adapter calls: md5.New(), blake3.New(64,
\* nil) or its HashFunc field
EngineOf(a) ==
    CASE a.type = "md5sumHasher" -> "md5.New"
      [] a.type = "blake3Hasher" -> "blake3.New"
      [] OTHER -> a.HashFunc

\* how the call of the frame p ended
Outcome(p) == IF p.pc = "idle" THEN "none" ELSE IF p.err = NoErr THEN "nil" ELSE "error"

\* the frame of the call c = [op, hash, in] on entry
Begun(c, prev) ==
    [IdleProc EXCEPT !.op = c.op, !.hash = c.hash, !.before = c.in, !.input = c.in,
                     !.prev = prev]

\* the call returns err
Failed(p, err) == [p EXCEPT !.pc = "done", !.err = err, !.digest = NilSlice]

\* mutant: the engine the call before left behind is used again
Entered_ReusingEngine(p, a, c) ==
    CASE c.in.type \notin {"string", "io.Reader"} ->
            Failed(Begun(c, Outcome(p)), Wrap(ErrUnsupportedInputType, c.in.type))
      [] c.in.type = "string" /\ a.type = "pHasher" ->
            Failed(Begun(c, Outcome(p)), ErrPhashNotSupportedString)
      [] c.in.type = "io.Reader" /\ a.type = "pHasher" ->
            [Begun(c, Outcome(p)) EXCEPT !.pc = "decode"]
      [] OTHER ->
            [Begun(c, Outcome(p)) EXCEPT
                !.pc = "feed",
                !.eng = IF p.eng.new = EngineOf(a) THEN p.eng ELSE NewEngine(EngineOf(a))]

\* Generate or Compare up to the adapter's first statement: the type switch
\* of the facade, then h := HashFunc() (a fresh engine of the call's own) in
\* an incremental adapter, the rejection of a string in the perceptual one
Entered(p, a, c) ==
    CASE c.in.type \notin {"string", "io.Reader"} ->
            Failed(Begun(c, Outcome(p)), Wrap(ErrUnsupportedInputType, c.in.type))
      [] c.in.type = "string" /\ a.type = "pHasher" ->
            Failed(Begun(c, Outcome(p)), ErrPhashNotSupportedString)
      [] c.in.type = "io.Reader" /\ a.type = "pHasher" ->
            [Begun(c, Outcome(p)) EXCEPT !.pc = "decode"]
      [] OTHER ->
            [Begun(c, Outcome(p)) EXCEPT !.pc = "feed", !.eng = NewEngine(EngineOf(a))]

\* h.Write([]byte(s))
FedString(p) == [p EXCEPT !.eng = Write(p.eng, p.input.data).eng, !.pc = "sum"]

\* mutant: the copy does not take EOF for the end and reads on
Fed_IgnoringEof(p, rd) ==
    IF rd.err = NoErr THEN [p EXCEPT !.eng = IoCopyWrite(p.eng, rd).eng, !.input = rd.r]
    ELSE IF rd.err = EOF THEN p
    ELSE Failed(p, rd.err)

\* one round of io.Copy(h, r): a chunk read is written to the engine, EOF
\* ends the copy, another error ends the call
Fed(p, rd) ==
    IF rd.err = NoErr THEN [p EXCEPT !.eng = IoCopyWrite(p.eng, rd).eng, !.input = rd.r]
    ELSE IF rd.err = EOF THEN [p EXCEPT !.pc = "sum"]
    ELSE Failed(p, rd.err)

FedBy(p) == IF p.input.type = "string" THEN FedString(p) ELSE Fed(p, Read(p.input))

\* mutant: the callers in the middle of a call write to one engine
FeedOf_SharedEngine(ps, i) ==
    [j \in Callers |->
        IF j = i THEN FedBy(ps[i])
        ELSE IF ps[j].pc \in {"feed", "sum"} THEN [ps[j] EXCEPT !.eng.a = FedBy(ps[i]).eng.a,
                                                                !.eng.b = FedBy(ps[i]).eng.b]
        ELSE ps[j]]

\* the callers after caller i fed its engine
FeedOf(ps, i) == [ps EXCEPT ![i] = FedBy(ps[i])]

\* image.Decode and the fingerprint of a stream in the perceptual adapter
DecodedBy(p, g) ==
    IF g.err # NoErr THEN [Failed(p, g.err) EXCEPT !.input = g.r]
    ELSE [p EXCEPT !.digest = g.digest, !.input = g.r,
                   !.pc = IF p.op = "Generate" THEN "done" ELSE "cmp"]

\* return h.Sum(nil), nil
SumOf(p) == [p EXCEPT !.digest = Sum(p.eng), !.pc = IF p.op = "Generate" THEN "done" ELSE "cmp"]

\* if !bytes.Equal(hashA, hashB) { return ErrHashMismatch }; return nil
CmpOf(p) ==
    [p EXCEPT !.pc = "done", !.digest = NilSlice,
              !.err = IF BytesEqual(p.hash, p.digest) THEN NoErr ELSE ErrHashMismatch]

\* history: calls in progress at the same time have met
Marked(ps) ==
    [i \in Callers |->
        IF ps[i].pc \in MidCall /\ \E j \in Callers \ {i} : ps[j].pc \in MidCall
        THEN [ps[i] EXCEPT !.met = TRUE] ELSE ps[i]]

\* the inputs of the callers and the calls they make with them
ConcInputs == ProbeInputs

CallsOn(hh, in) ==
    {[op |-> "Generate", hash |-> NilSlice, in |-> in]}
        \cup {[op |-> "Compare", hash |-> d, in |-> in] : d \in {Generate(hh, in).digest, NilSlice}}

\* one option list for every shape of built-in adapter
ConcOptionLists ==
    {<<>>} \cup {<<Opt(n, NilAdapter)>> :
                   n \in {"WithSha1sum", "WithAdler32", "WithXXHash", "WithBlake3", "WithPhash"}}

Invoke(i) ==
    /\ procs[i].pc \in {"idle", "done"}
    /\ \E in \in ConcInputs : \E c \in CallsOn(h, in) :
          procs' = Marked([procs EXCEPT ![i] = Entered(procs[i], h.hasher, c)])
    /\ UNCHANGED <<h, opts, input, call, cli, heap>>

Feed(i) ==
    /\ procs[i].pc = "feed"
    /\ procs' = Marked(FeedOf(procs, i))
    /\ UNCHANGED <<h, opts, input, call, cli, heap>>

DecodeStep(i) ==
    /\ procs[i].pc = "decode"
    /\ procs' = Marked([procs EXCEPT
                          ![i] = DecodedBy(procs[i], pHasher_GenHashFromIOReader(procs[i].input))])
    /\ UNCHANGED <<h, opts, input, call, cli, heap>>

SumStep(i) ==
    /\ procs[i].pc = "sum"
    /\ procs' = Marked([procs EXCEPT ![i] = SumOf(procs[i])])
    /\ UNCHANGED <<h, opts, input, call, cli, heap>>

CmpStep(i) ==
    /\ procs[i].pc = "cmp"
    /\ procs' = Marked([procs EXCEPT ![i] = CmpOf(procs[i])])
    /\ UNCHANGED <<h, opts, input, call, cli, heap>>

InvokeCall == \E i \in Callers : Invoke(i)
FeedEngine == \E i \in Callers : Feed(i)
DecodeImage == \E i \in Callers : DecodeStep(i)
SumEngine == \E i \in Callers : SumStep(i)
CompareDigests == \E i \in Callers : CmpStep(i)

InitConc ==
    /\ opts \in ConcOptionLists
    /\ h = NewHash(opts)
    /\ input = OtherInput("<nil>")
    /\ call = NoCall
    /\ procs = NoProcs
    /\ cli = NoCli
    /\ heap = NoHeap

NextConc == InvokeCall \/ FeedEngine \/ DecodeImage \/ SumEngine \/ CompareDigests

SpecConc == InitConc /\ [][NextConc]_vars

\* ------------------------------------------------- one call on a stream
\* A reader that never reports the end of the stream or an error: every Read
\* returns no bytes and a nil error (a Read that blocks for good is the same
\* to the caller: the round of io.Copy never gets further).
EndlessReaders == {ReaderInput(SubSeq(TextTest, 1, MaxLen), 0, NoFail)}

IsEndless(r) == r.type = "io.Reader" /\ r.chunk = 0 /\ r.pos < Len(r.data) /\ r.failAt # r.pos

LiveCaller == "c1"

\* the option lists of the incremental adapters
LiveOptionLists == {os \in ConcOptionLists : NewHash(os).hasher.type # "pHasher"}

LiveInvoke == Invoke(LiveCaller)

\* Generate or Compare is called with a reader that never ends
LiveInvokeEndless ==
    /\ procs[LiveCaller].pc \in {"idle", "done"}
    /\ \E r \in EndlessReaders : \E op \in {"Generate", "Compare"} :
          procs' = Marked([procs EXCEPT
                             ![LiveCaller] = Entered(procs[LiveCaller], h.hasher,
                                                     [op |-> op, hash |-> NilSlice, in |-> r])])
    /\ UNCHANGED <<h, opts, input, call, cli, heap>>

LiveFeed == Feed(LiveCaller)
LiveSum == SumStep(LiveCaller)
LiveCmp == CmpStep(LiveCaller)

InitLive ==
    /\ opts \in LiveOptionLists
    /\ h = NewHash(opts)
    /\ input = OtherInput("<nil>")
    /\ call = NoCall
    /\ procs = NoProcs
    /\ cli = NoCli
    /\ heap = NoHeap

NextLive == LiveInvoke \/ LiveInvokeEndless \/ LiveFeed \/ LiveSum \/ LiveCmp

\* the goroutine of a call is scheduled as long as it can run: a statement
\* of the call that can be executed is executed
LiveFairness == WF_vars(LiveFeed) /\ WF_vars(LiveSum) /\ WF_vars(LiveCmp)

SpecLive == InitLive /\ [][NextLive]_vars /\ LiveFairness

\* ------------------------------------------------------ the hasher command
\* cli is the run of cmd/hasher: the command line (help, nargs), the file
\* named on it, and the locals of run and generate (the buffer, the entries
\* of the map of algorithms not ranged over yet, jsonMap), what was printed
\* and the error run returns.

\* the keys of the map newHash builds, in the order json.Marshal writes them
CliSorted ==
    <<"adler32", "blake3", "fnv128", "fnv128a", "fnv32", "fnv32a", "fnv64", "fnv64a",
      "md5sum", "sha1", "sha256", "sha512", "whirlpool", "xxhash">>

CliNames == {CliSorted[i] : i \in DOMAIN CliSorted}

\* the option of each entry
CliOption(name) ==
    CASE name = "md5sum" -> "WithMd5Sum"
      [] name = "sha1" -> "WithSha1sum"
      [] name = "sha256" -> "WithSha256sum"
      [] name = "sha512" -> "WithSha512sum"
      [] name = "fnv32" -> "WithFnv32"
      [] name = "fnv32a" -> "WithFnv32a"
      [] name = "fnv64" -> "WithFnv64"
      [] name = "fnv64a" -> "WithFnv64a"
      [] name = "fnv128" -> "WithFnv128"
      [] name = "fnv128a" -> "WithFnv128a"
      [] name = "blake3" -> "WithBlake3"
      [] name = "adler32" -> "WithAdler32"
      [] name = "whirlpool" -> "WithWhirlpool"
      [] name = "xxhash" -> "WithXXHash"

\* h.hash[name]
CliHash(name) == NewHash(<<Opt(CliOption(name), NilAdapter)>>)

\* the files a command line can name: none of that name, an empty one, one
\* with content, and one whose Read fails (a directory)
CliFiles ==
    {[exists |-> FALSE, data |-> <<>>, failAt |-> NoFail],
     [exists |-> TRUE, data |-> <<>>, failAt |-> NoFail],
     [exists |-> TRUE, data |-> SubSeq(TextTest, 1, MaxLen), failAt |-> NoFail],
     [exists |-> TRUE, data |-> SubSeq(TextTest, 1, MaxLen), failAt |-> 1]}

ErrNotExist == [kind |-> "fs.ErrNotExist", msg |-> ""]

\* errors.New(text) and fmt.Errorf(text + ": %w", err)
ErrorsNew(text) == [kind |-> "errorString", msg |-> text]
Errorf(text, err) == [kind |-> err.kind, msg |-> text]

\* what printHelp and fmt.Println(string(j)) write
HelpText == [kind |-> "help", json |-> <<>>]
JsonText(j) == [kind |-> "json", json |-> j]

\* fmt.Sprintf("%x", hash): two lower-case hexadecimal digits for each byte
HexDigits == <<"0", "1", "2", "3", "4", "5", "6", "7", "8", "9", "a", "b", "c", "d", "e", "f">>

SprintfX(b) ==
    [i \in 1..(2 * Len(b)) |->
        IF i % 2 = 1 THEN HexDigits[(b[(i + 1) \div 2] \div 16) + 1]
        ELSE HexDigits[(b[i \div 2] % 16) + 1]]

\* json.Marshal of a map[string]string: the entries in the order of the keys
Entries(keys, m) == [i \in DOMAIN keys |-> <<keys[i], m[keys[i]]>>]
IsKey(m, n) == n \in DOMAIN m
JsonMarshal(m) == Entries(SelectSeq(CliSorted, LAMBDA n : IsKey(m, n)), m)

\* jsonMap[name] = v
Put(m, name, v) == [n \in DOMAIN m \cup {name} |-> IF n = name THEN v ELSE m[n]]

\* var buf bytes.Buffer holding p: a Read or WriteTo delivers all that is left
BytesBuffer(p) == ReaderInput(p, IF p = <<>> THEN 1 ELSE Len(p), NoFail)

\* the command with its command line, before run
Started(help, nargs, file) ==
    [NoCli EXCEPT !.pc = "run", !.help = help, !.nargs = nargs, !.file = file]

\* mutant: after the help the command goes on to the file
Parsed_HelpContinues(c) ==
    IF c.help THEN [c EXCEPT !.out = Append(c.out, HelpText), !.pc = "open"]
    ELSE IF c.nargs < 1
    THEN [c EXCEPT !.out = Append(c.out, HelpText), !.err = ErrorsNew("few arguments"),
                   !.pc = "exit"]
    ELSE [c EXCEPT !.pc = "open"]

\* run, up to h := newHash()
Parsed(c) ==
    IF c.help THEN [c EXCEPT !.out = Append(c.out, HelpText), !.pc = "exit"]
    ELSE IF c.nargs < 1
    THEN [c EXCEPT !.out = Append(c.out, HelpText), !.err = ErrorsNew("few arguments"),
                   !.pc = "exit"]
    ELSE [c EXCEPT !.pc = "open"]

\* file, err := os.Open(flag.Arg(0))
Opened(c) ==
    IF ~c.file.exists
    THEN [c EXCEPT !.err = Errorf("error opening file", ErrNotExist), !.pc = "exit"]
    ELSE [c EXCEPT !.opened = TRUE, !.pc = "copy"]

\* _, err := io.Copy(&buf, input), all being what the copy read of the file
Buffered(c, all) ==
    IF all.err # NoErr
    THEN [c EXCEPT !.err = Errorf("error generating hash", all.err), !.pc = "exit"]
    ELSE [c EXCEPT !.buf = BytesBuffer(all.p), !.todo = CliNames, !.pc = "range"]

\* one round of the range over h.hash: hash, err := hasher.Generate(&buf),
\* g being what Generate returns
Hashed(c, name, g) ==
    IF g.err # NoErr
    THEN [c EXCEPT !.err = Errorf("error generating hash", g.err), !.buf = g.input,
                   !.calls = c.calls + 1, !.pc = "exit"]
    ELSE [c EXCEPT !.jsonMap = Put(c.jsonMap, name, SprintfX(g.digest.b)), !.buf = g.input,
                   !.todo = c.todo \ {name}, !.calls = c.calls + 1]

\* j, err := json.Marshal(jsonMap); fmt.Println(string(j)); return nil
Printed(c) == [c EXCEPT !.out = Append(c.out, JsonText(JsonMarshal(c.jsonMap))), !.pc = "exit"]

CliParse ==
    /\ cli.pc = "run"
    /\ cli' = Parsed(cli)
    /\ UNCHANGED <<h, opts, input, call, procs, heap>>

CliOpen ==
    /\ cli.pc = "open"
    /\ cli' = Opened(cli)
    /\ UNCHANGED <<h, opts, input, call, procs, heap>>

CliCopy ==
    /\ cli.pc = "copy"
    /\ cli' = Buffered(cli, ReadAll(ReaderInput(cli.file.data, MaxChunk, cli.file.failAt), <<>>))
    /\ UNCHANGED <<h, opts, input, call, procs, heap>>

\* the range over the map takes the entries in an order of its own choosing
CliHashNext ==
    /\ cli.pc = "range"
    /\ \E name \in cli.todo : cli' = Hashed(cli, name, Generate(CliHash(name), cli.buf))
    /\ UNCHANGED <<h, opts, input, call, procs, heap>>

CliPrint ==
    /\ cli.pc = "range" /\ cli.todo = {}
    /\ cli' = Printed(cli)
    /\ UNCHANGED <<h, opts, input, call, procs, heap>>

InitCli ==
    /\ opts = <<>>
    /\ h = NewHash(opts)
    /\ input = OtherInput("<nil>")
    /\ call = NoCall
    /\ procs = NoProcs
    /\ cli \in {Started(hp, n, f) : hp \in BOOLEAN, n \in 0..1, f \in CliFiles}
    /\ heap = NoHeap

NextCli == CliParse \/ CliOpen \/ CliCopy \/ CliHashNext \/ CliPrint

SpecCli == InitCli /\ [][NextCli]_vars

\* ------------------------------------------------- Hashes and digests
\* heap is the memory of a program that builds several Hashes and keeps the
\* digests it was given: hashes[k] is the k-th Hash, its hasher field the
\* address of an adapter instance in adapters; bufs[b] is the array of the
\* byte slice at address b; made[k] (history) is the option list the k-th
\* Hash was built from and ret the record of the last call.
HeapOptionLists ==
    {<<>>, <<Opt("WithAdler32", NilAdapter)>>, <<Opt("WithPhash", NilAdapter)>>,
     <<Opt("WithAdler32", NilAdapter), Opt("WithMd5Sum", NilAdapter)>>}

HeapInputs ==
    {StringInput(SubSeq(TextTest, 1, 1)),
     ReaderInput(SubSeq(TextTest, 1, MaxLen), 1, NoFail),
     ReaderInput(JpegMagic, MaxChunk, NoFail)}

Objects(hp) == Len(hp.hashes) + Len(hp.bufs)

\* the Hash at address k, as the value the methods see
HashAt(hp, k) == [hasher |-> hp.adapters[hp.hashes[k].hasher]]

\* mutant: the default adapter is one instance of the package, and the
\* options configure that instance
Installed_SharedDefault(hp, k, a) ==
    [hp EXCEPT !.adapters = IF hp.adapters = <<>> THEN <<a>> ELSE [hp.adapters EXCEPT ![1] = a],
               !.hashes[k].hasher = 1]

\* h.hasher = &md5sumHasher{}, h.hasher = newSHA1Hasher(), ...: a new
\* adapter instance is made and the field of the k-th Hash set to it
Installed(hp, k, a) ==
    [hp EXCEPT !.adapters = Append(hp.adapters, a),
               !.hashes[k].hasher = Len(hp.adapters) + 1]

\* for _, opt := range opts { opt(h) } on the k-th Hash
RECURSIVE Optioned(_, _, _)
Optioned(hp, k, os) ==
    IF os = <<>> THEN hp
    ELSE Optioned(Installed(hp, k, ApplyOption(Head(os), [hasher |-> NilAdapter]).hasher),
                  k, Tail(os))

\* h := &Hash{hasher: &md5sumHasher{}}
Constructed(hp, os) ==
    Installed([hp EXCEPT !.hashes = Append(hp.hashes, [hasher |-> 0]),
                         !.made = Append(hp.made, os)],
              Len(hp.hashes) + 1, md5sumHasherLit)

\* mutant: the digest is written to the array of an earlier digest of the
\* same length
Allocated_Reusing(bufs, d) ==
    IF \E b \in DOMAIN bufs : Len(bufs[b]) = Len(d.b)
    THEN [bufs |-> [bufs EXCEPT ![CHOOSE b \in DOMAIN bufs : Len(bufs[b]) = Len(d.b)] = d.b],
          addr |-> CHOOSE b \in DOMAIN bufs : Len(bufs[b]) = Len(d.b)]
    ELSE [bufs |-> Append(bufs, d.b), addr |-> Len(bufs) + 1]

\* h.Sum(nil) and make([]byte, 8): the digest is in a new array; a nil
\* slice has none
Allocated(bufs, d) ==
    IF d.nil THEN [bufs |-> bufs, addr |-> 0]
    ELSE [bufs |-> Append(bufs, d.b), addr |-> Len(bufs) + 1]

\* Generate on the k-th Hash returned g, its digest stored as al says
Generated(hp, k, in, g, al) ==
    [hp EXCEPT !.adapters[hp.hashes[k].hasher] = g.h.hasher,
               !.bufs = al.bufs,
               !.ret = [NoRet EXCEPT !.op = "Generate", !.on = k, !.in = in, !.buf = al.addr,
                                     !.nbufs = Len(hp.bufs), !.err = g.err]]

\* Compare on the k-th Hash with the digest at b returned c: bytes.Equal
\* reads the two slices
HeapCompared(hp, k, b, in, c) ==
    [hp EXCEPT !.adapters[hp.hashes[k].hasher] = c.h.hasher,
               !.ret = [NoRet EXCEPT !.op = "Compare", !.on = k, !.in = in, !.arg = b,
                                     !.argWas = hp.bufs[b], !.nbufs = Len(hp.bufs),
                                     !.err = c.err]]

\* digest[0] = ^digest[0], by the caller that holds the digest
Modified(hp, b) ==
    [hp EXCEPT !.bufs[b][1] = 255 - hp.bufs[b][1], !.ret = [NoRet EXCEPT !.op = "modify", !.arg = b]]

\* h := NewHash(os...)
HeapNewHash ==
    /\ Objects(heap) < MaxObjects
    /\ \E os \in HeapOptionLists :
          heap' = [Optioned(Constructed(heap, os), Len(heap.hashes) + 1, os)
                      EXCEPT !.ret = [NoRet EXCEPT !.op = "NewHash", !.on = Len(heap.hashes) + 1]]
    /\ UNCHANGED <<h, opts, input, call, procs, cli>>

\* digest, err := hashes[k].Generate(in)
Stored(hp, k, in, g) == Generated(hp, k, in, g, Allocated(hp.bufs, g.digest))

HeapGenerate ==
    /\ Objects(heap) < MaxObjects
    /\ \E k \in DOMAIN heap.hashes : \E in \in HeapInputs :
          heap' = Stored(heap, k, in, Generate(HashAt(heap, k), in))
    /\ UNCHANGED <<h, opts, input, call, procs, cli>>

\* err := hashes[k].Compare(digest, in) with a digest the caller holds
HeapCompare ==
    /\ \E k \in DOMAIN heap.hashes : \E b \in DOMAIN heap.bufs : \E in \in HeapInputs :
          heap' = HeapCompared(heap, k, b, in, Compare(HashAt(heap, k), Slice(heap.bufs[b]), in))
    /\ UNCHANGED <<h, opts, input, call, procs, cli>>

\* the caller writes to a digest it holds
HeapModify ==
    /\ \E b \in DOMAIN heap.bufs : heap.bufs[b] # <<>> /\ heap' = Modified(heap, b)
    /\ UNCHANGED <<h, opts, input, call, procs, cli>>

InitHeap ==
    /\ opts = <<>>
    /\ h = NewHash(opts)
    /\ input = OtherInput("<nil>")
    /\ call = NoCall
    /\ procs = NoProcs
    /\ cli = NoCli
    /\ heap = NoHeap

NextHeap == HeapNewHash \/ HeapGenerate \/ HeapCompare \/ HeapModify

SpecHeap == InitHeap /\ [][NextHeap]_vars

\* ------------------------------------------------------------------ claims
IncrementalTypes == {"md5sumHasher", "hasher", "hasher32", "hasher64", "blake3Hasher"}
IsIncremental(hh) == hh.hasher.type \in IncrementalTypes
IsBuiltin(hh) == IsIncremental(hh) \/ hh.hasher.type = "pHasher"
IsPhash(hh) == hh.hasher.type = "pHasher"

\* byte-for-byte identical and of equal length
Identical(x, y) == Len(x.b) = Len(y.b) /\ \A i \in 1..Len(x.b) : x.b[i] = y.b[i]

\* a stream that has not been read yet and never fails
IsFreshReader(in) == in.type = "io.Reader" /\ in.pos = 0 /\ in.failAt = NoFail
IsContent(in) == in.type = "string" \/ IsFreshReader(in)

\* the last call made again on hh
Redo(hh, c) == IF c.op = "Generate" THEN Generate(hh, c.before) ELSE Compare(hh, c.hash, c.before)
SameOutcome(c, out) == c.digest = out.digest /\ c.err = out.err /\ c.panic = out.panic

\* C1 as stated: for every supported algorithm and every byte sequence b,
\* given as a string or as a stream, Compare(Generate(b), b) returns nil.
C1_RoundTripEveryAlgorithm ==
    (call.op = "Compare" /\ IsBuiltin(h) /\ IsContent(call.before)
        /\ call.hash = Generate(h, call.before).digest)
    => call.err = NoErr

\* g is what Generate returns for the input of the call c: it succeeded and
\* c was handed its digest
HandedDigestOf(c, g) == g.err = NoErr /\ ~g.panic /\ c.hash = g.digest

\* C1 amended: for every supported algorithm and every input b for which
\* Generate(b) returns a digest and no error, Compare of that digest with
\* the same b returns nil.
C1_RoundTrip ==
    (call.op = "Compare" /\ IsBuiltin(h) /\ HandedDigestOf(call, Generate(h, call.before)))
    => (call.err = NoErr /\ ~call.panic)

C1_Witness ==
    /\ call.op = "Compare" /\ IsIncremental(h) /\ IsFreshReader(call.before)
    /\ Len(call.before.data) = MaxLen
    /\ call.hash = Generate(h, call.before).digest
    /\ call.err = NoErr

\* C2: with a built-in incremental-hash adapter, Compare(d, s) on a string s
\* returns nil iff d is byte-for-byte identical to and as long as
\* Generate(s), and ErrHashMismatch otherwise; the nil or empty digest, a
\* proper prefix and the digest with a trailing byte are rejected.
NilIffIdentical(c, g) ==
    /\ Identical(c.hash, g) => c.err = NoErr
    /\ ~Identical(c.hash, g) => c.err = ErrHashMismatch
    /\ c.hash \in {NilSlice, Slice(<<>>), DropLast(g), Slice(g.b \o <<0>>)}
          => c.err = ErrHashMismatch

C2_CompareIffIdentical ==
    (call.op = "Compare" /\ IsIncremental(h) /\ call.before.type = "string")
    => NilIffIdentical(call, Generate(h, call.before).digest)

C2_Witness ==
    /\ call.op = "Compare" /\ IsIncremental(h) /\ call.before.type = "string"
    /\ call.hash = DropLast(Generate(h, call.before).digest)
    /\ call.err = ErrHashMismatch

\* C3: with an adapter installed, Generate calls exactly GenHashFromString
\* for a string and exactly GenHashFromIOReader for an io.Reader and returns
\* that call's digest and error; Compare does the same with CmpHashAndString
\* and CmpHashAndIOReader, handing the digest on unchanged.
\* the call c invoked exactly the adapter operation op and returned res
Relayed(c, op, res) == c.trace = <<op>> /\ c.digest = res.digest /\ c.err = res.err

C3_Dispatch ==
    (call.op # "none" /\ h.hasher # NilAdapter /\ call.before.type \in {"string", "io.Reader"})
    => CASE call.op = "Generate" /\ call.before.type = "string" ->
              Relayed(call, "GenHashFromString", Hasher_GenHashFromString(h.hasher, call.before))
         [] call.op = "Generate" /\ call.before.type = "io.Reader" ->
              Relayed(call, "GenHashFromIOReader", Hasher_GenHashFromIOReader(h.hasher, call.before))
         [] call.op = "Compare" /\ call.before.type = "string" ->
              Relayed(call, "CmpHashAndString",
                      Hasher_CmpHashAndString(h.hasher, call.hash, call.before))
         [] call.op = "Compare" /\ call.before.type = "io.Reader" ->
              Relayed(call, "CmpHashAndIOReader",
                      Hasher_CmpHashAndIOReader(h.hasher, call.hash, call.before))

C3_Witness ==
    /\ call.op = "Compare" /\ h.hasher = userHashLit /\ call.before.type = "io.Reader"
    /\ call.hash = Slice(<<>>)
    /\ call.trace = <<"CmpHashAndIOReader">> /\ call.err = NoErr

\* C4: whatever the adapter, Generate and Compare with an input that is
\* neither a string nor an io.Reader return an error that matches
\* ErrUnsupportedInputType, and Generate returns a nil digest.
C4_UnsupportedInput ==
    (call.op # "none" /\ call.before.type \notin {"string", "io.Reader"})
    => /\ ErrorsIs(call.err, ErrUnsupportedInputType)
       /\ ~call.panic
       /\ call.op = "Generate" => call.digest = NilSlice

C4_Witness ==
    /\ call.op = "Compare" /\ IsPhash(h) /\ call.before.type = "[]uint8"
    /\ ErrorsIs(call.err, ErrUnsupportedInputType)

\* contents that are text, not an image
TextContents == (Prefixes(TextTest) \cup Prefixes(TextMism)) \ {<<>>}

\* the last call, made with the stream in in place of its input
OnInput(hh, c, in) == Redo(hh, [c EXCEPT !.before = in])

\* C5 as stated: for every supported algorithm, Generate and Compare give
\* the same digest and outcome for a string and for a stream that delivers
\* the bytes of that string.
C5_StringEqualsStreamEveryAlgorithm ==
    (call.op # "none" /\ IsBuiltin(h) /\ call.before.type = "string")
    => \A c \in 1..MaxChunk :
          SameOutcome(call, OnInput(h, call, ReaderInput(call.before.data, c, NoFail)))

\* C5 amended: for every incremental-hash algorithm (every built-in one but
\* the perceptual hash), Generate and Compare give the same digest and
\* outcome for a string and for a stream that delivers the bytes of that
\* string without a read error, however the stream cuts them into reads.
C5_StringEqualsStream ==
    /\ (call.op # "none" /\ IsIncremental(h) /\ call.before.type = "string")
       => \A c \in 1..MaxChunk :
             SameOutcome(call, OnInput(h, call, ReaderInput(call.before.data, c, NoFail)))
    /\ (call.op # "none" /\ IsIncremental(h) /\ IsFreshReader(call.before))
       => SameOutcome(call, OnInput(h, call, StringInput(call.before.data)))

C5_Witness ==
    /\ call.op = "Generate" /\ IsIncremental(h) /\ IsFreshReader(call.before)
    /\ call.before.chunk = 1 /\ Len(call.before.data) = MaxLen
    /\ call.err = NoErr
    /\ call.digest = Generate(h, StringInput(call.before.data)).digest

\* C6: with the perceptual adapter, Generate(s) returns (nil,
\* ErrPhashNotSupportedString) for every string s, and Compare(d, s) returns
\* ErrPhashNotSupportedString for every d, a valid perceptual digest included.
C6_PhashRejectsString ==
    (call.op # "none" /\ IsPhash(h) /\ call.before.type = "string")
    => /\ call.err = ErrPhashNotSupportedString
       /\ call.op = "Generate" => call.digest = NilSlice

C6_Witness ==
    /\ call.op = "Compare" /\ IsPhash(h) /\ call.before.type = "string"
    /\ call.hash = Generate(h, ReaderInput(JpegMagic, 1, NoFail)).digest
    /\ Len(call.hash.b) = 8
    /\ call.err = ErrPhashNotSupportedString

\* C7 as stated: the perceptual adapter answers text, given as a string or
\* as a stream whose content is text, with ErrPhashNotSupportedString and
\* does not try to decode it.
C7_PhashRejectsAllTextUndecoded ==
    (call.op # "none" /\ IsPhash(h)
        /\ (call.before.type = "string"
            \/ (call.before.type = "io.Reader" /\ call.before.data \in TextContents)))
    => (call.err = ErrPhashNotSupportedString /\ ~call.decoded)

\* C7 amended: the perceptual adapter answers a string with
\* ErrPhashNotSupportedString and does not try to decode it; a stream whose
\* content is text is handed to image.Decode and answered with the
\* decoder's error (image.ErrFormat), not with ErrPhashNotSupportedString.
C7_PhashText ==
    /\ (call.op # "none" /\ IsPhash(h) /\ call.before.type = "string")
       => (call.err = ErrPhashNotSupportedString /\ ~call.decoded)
    /\ (call.op # "none" /\ IsPhash(h) /\ call.before.type = "io.Reader"
          /\ call.before.data \in TextContents)
       => (call.err = ErrFormat /\ call.decoded)

C7_Witness ==
    /\ call.op = "Generate" /\ IsPhash(h) /\ IsFreshReader(call.before)
    /\ call.before.data = SubSeq(TextTest, 1, MaxLen)
    /\ call.err = ErrFormat /\ call.decoded

\* C8: a Hash built without options uses MD5; every call on it gives what
\* the same call gives on a Hash built with WithMd5Sum, and the reverse.
\* the Hash is hh and the last call gives on hh what it gave
BehavesLike(hh) == h = hh /\ (call.op # "none" => SameOutcome(call, Redo(hh, call)))

C8_DefaultIsMd5 ==
    /\ opts = <<>> => BehavesLike(NewHash(<<Opt("WithMd5Sum", NilAdapter)>>))
    /\ opts = <<Opt("WithMd5Sum", NilAdapter)>> => BehavesLike(NewHash(<<>>))

C8_Witness ==
    /\ opts = <<>> /\ call.op = "Generate" /\ call.before.type = "string"
    /\ call.before.data = SubSeq(TextTest, 1, MaxLen)
    /\ call.err = NoErr /\ Len(call.digest.b) = 16

\* C9: NewHash applies its options left to right and the last one wins: the
\* Hash of a non-empty option list has the adapter its last option sets and
\* every call on it gives what it gives on NewHash of that option alone.
C9_LastOptionWins == opts # <<>> => BehavesLike(NewHash(<<opts[Len(opts)]>>))

C9_Witness ==
    /\ Len(opts) = MaxOpts
    /\ opts[1].name = "WithPhash" /\ opts[Len(opts)].name = "WithSha1sum"
    /\ call.op = "Generate" /\ call.before.type = "string"
    /\ call.err = NoErr /\ Len(call.digest.b) = 20

\* C10: no sequence of Generate and Compare calls, failing ones included,
\* changes the adapter: it stays the one NewHash resolved from the options.
C10_AdapterFixed == h.hasher = NewHash(opts).hasher

C10_Witness ==
    /\ call.op = "Generate" /\ call.before.type = "int" /\ call.err # NoErr
    /\ h.hasher = newSHA1Hasher

\* a stream on which a Read is going to fail
WillFail(in) == in.type = "io.Reader" /\ in.failAt # NoFail /\ in.failAt >= in.pos

\* C13: with an incremental-hash adapter and a stream whose Read fails, at
\* once or after some bytes were delivered, Generate returns (nil, that
\* error) and no partial digest, and Compare returns that error for every
\* digest given, never nil and never ErrHashMismatch.
C13_ReadFailure ==
    (call.op # "none" /\ IsIncremental(h) /\ WillFail(call.before))
    => (call.err = ErrRead /\ call.digest = NilSlice /\ ~call.panic)

C13_Witness ==
    /\ call.op = "Compare" /\ IsIncremental(h) /\ WillFail(call.before)
    /\ call.before.pos = 0 /\ call.before.failAt = 1
    /\ call.hash = Generate(h, StringInput(SubSeq(call.before.data, 1, 1))).digest
    /\ call.err = ErrRead

\* C14: a user-defined adapter is treated like a built-in one, the facade
\* checks nothing itself: Generate returns the bytes the adapter returns
\* whatever the input holds, and Compare returns nil when the adapter's
\* compare operation does, also for a digest that differs from the one the
\* adapter generates for the input.
C14_UserDefined ==
    (call.op # "none" /\ opts = <<Opt("WithUserDifinedAlgorithm", userHashLit)>>
        /\ call.before.type \in {"string", "io.Reader"})
    => /\ call.err = NoErr /\ ~call.panic /\ Len(call.trace) = 1
       /\ call.op = "Generate" => call.digest = Slice(TextTest)
       /\ call.op = "Compare" => call.digest = NilSlice

C14_Witness ==
    /\ call.op = "Compare" /\ opts = <<Opt("WithUserDifinedAlgorithm", userHashLit)>>
    /\ call.before.type = "string" /\ call.before.data = SubSeq(TextMism, 1, MaxLen)
    /\ call.hash = DropLast(Slice(TextTest))
    /\ call.err = NoErr

\* C16 as stated: every Hash NewHash returns, for every option list,
\* WithUserDifinedAlgorithm with any argument included, holds a non-nil
\* adapter, and Generate and Compare on a string or an io.Reader reach one
\* adapter operation and return, they do not crash.
C16_AdapterUsable ==
    (call.op # "none" /\ call.before.type \in {"string", "io.Reader"})
    => (h.hasher # NilAdapter /\ Len(call.trace) = 1 /\ ~call.panic)

\* the outcome of the call c on a stream that image.Decode turned into d
DecodeOutcome(c, d) ==
    IF d.err # NoErr
    THEN c.err = d.err /\ c.err \notin {NoErr, ErrHashMismatch} /\ c.digest = NilSlice
    ELSE IF c.op = "Generate" THEN c.err = NoErr
    ELSE /\ Identical(c.hash, PutUint64LE(DTC(d.img))) => c.err = NoErr
         /\ ~Identical(c.hash, PutUint64LE(DTC(d.img))) => c.err = ErrHashMismatch

AlgorithmOf(os) == IF os = <<>> THEN "WithMd5Sum" ELSE os[Len(os)].name

\* the digest lengths in bytes, by algorithm
DigestLen(name) ==
    CASE name = "WithMd5Sum" -> 16
      [] name = "WithSha1sum" -> 20
      [] name = "WithSha256sum" -> 32
      [] name = "WithSha512sum" -> 64
      [] name \in {"WithFnv32", "WithFnv32a", "WithCRC32", "WithAdler32"} -> 4
      [] name \in {"WithFnv64", "WithFnv64a", "WithXXHash", "WithPhash"} -> 8
      [] name \in {"WithFnv128", "WithFnv128a", "WithMmh3"} -> 16
      [] name \in {"WithWhirlpool", "WithBlake3"} -> 64

\* C19: for each built-in algorithm every digest Generate returns without
\* an error has the algorithm's own length, whatever the input, the empty
\* one included: 16 bytes for MD5, 20 for SHA-1, 32 for SHA-256, 64 for
\* SHA-512, 4 for FNV-32/32a, CRC32 and Adler-32, 8 for FNV-64/64a, xxHash
\* and the perceptual hash, 16 for FNV-128/128a and MurmurHash3, 64 for
\* Whirlpool and BLAKE3.
C19_DigestLength ==
    (call.op = "Generate" /\ IsBuiltin(h) /\ call.err = NoErr)
    => (~call.digest.nil /\ Len(call.digest.b) = DigestLen(AlgorithmOf(opts)))

C19_Witness ==
    /\ call.op = "Generate" /\ AlgorithmOf(opts) = "WithWhirlpool"
    /\ call.before = StringInput(<<>>)
    /\ call.err = NoErr /\ Len(call.digest.b) = 64

\* out, the call c made again with a value of another dynamic type, is
\* rejected too and with another text
RejectsOtherwise(c, out) ==
    ErrorsIs(out.err, ErrUnsupportedInputType) /\ out.err.msg # c.err.msg

\* C20: the error Generate and Compare return for an unsupported input
\* matches ErrUnsupportedInputType under errors.Is and its text carries the
\* dynamic type of the value, so values of different dynamic types get
\* different texts and both match ErrUnsupportedInputType.
C20_ErrorNamesType ==
    (call.op # "none" /\ call.before.type \notin {"string", "io.Reader"})
    => /\ ErrorsIs(call.err, ErrUnsupportedInputType)
       /\ call.err.msg = call.before.type
       /\ \A o \in Others \ {call.before} : RejectsOtherwise(call, OnInput(h, call, o))

C20_Witness ==
    /\ call.op = "Compare" /\ call.before.type = "[]uint8"
    /\ call.err = Wrap(ErrUnsupportedInputType, "[]uint8")
    /\ call.err # ErrUnsupportedInputType

\* the three error kinds of the package
ErrorKinds == {ErrUnsupportedInputType.kind, ErrHashMismatch.kind, ErrPhashNotSupportedString.kind}

\* the last call made once more: same Hash, same digest argument, same input
\* value (an io.Reader is the same object, as the first call left it)
Retry(hh, c, in) == Redo(hh, [c EXCEPT !.before = in])

RetryOnStream(hh, c, r) ==
    /\ IsIncremental(hh) =>
          (r.err = NoErr <=> Identical(c.hash, Generate(hh, StringInput(<<>>)).digest))
    /\ IsIncremental(hh) => r.err \in {NoErr, ErrHashMismatch}
    /\ IsPhash(hh) => r.err # NoErr

ByteOf(f, i) == (f[(i \div 2) + 1] \div (IF i % 2 = 0 THEN 1 ELSE 256)) % 256

\* d is the little-endian encoding of f in 8 bytes
IsLittleEndian(d, f) == ~d.nil /\ Len(d.b) = 8 /\ \A i \in 0..7 : d.b[i + 1] = ByteOf(f, i)

\* C17: for every stream that decodes as an image the perceptual adapter's
\* Generate returns 8 bytes, the little-endian encoding of the fingerprint f
\* that phash.DTC computes: byte i (0..7) is (f >> (8 * i)) mod 256.
C17_LittleEndian ==
    (call.op = "Generate" /\ IsPhash(h) /\ call.before.type = "io.Reader"
        /\ ImageDecode(call.before).err = NoErr)
    => (call.err = NoErr /\ IsLittleEndian(call.digest, DTC(ImageDecode(call.before).img)))

C17_Witness ==
    /\ call.op = "Generate" /\ IsPhash(h) /\ IsFreshReader(call.before)
    /\ call.before.data = SubSeq(ImageData, 1, MaxLen) /\ call.before.chunk = 1
    /\ call.err = NoErr
    /\ call.digest.b[1] # call.digest.b[8]

\* the frame p returned what the call out returned
Agrees(p, out) == p.digest = out.digest /\ p.err = out.err /\ p.input = out.input /\ ~out.panic

\* the call of the frame p run alone on hh
Alone(hh, p) ==
    IF p.op = "Generate" THEN Generate(hh, p.before) ELSE Compare(hh, p.hash, p.before)

\* C11: for a Hash with a built-in adapter and a string s, Generate(s)
\* returns the same digest whatever Generate and Compare calls, succeeding
\* or failing, on whatever inputs, were made before it: it is the digest
\* Generate(s) returns on the newly built Hash.
C11_SameDigestAfterAnyCalls ==
    \A i \in Callers :
        (procs[i].pc = "done" /\ procs[i].op = "Generate" /\ procs[i].before.type = "string")
        => Agrees(procs[i], Generate(NewHash(opts), procs[i].before))

C11_Witness ==
    \E i \in Callers :
        /\ procs[i].pc = "done" /\ procs[i].op = "Generate" /\ procs[i].before.type = "string"
        /\ procs[i].prev = "error"
        /\ IsIncremental(h) /\ procs[i].err = NoErr
        /\ procs[i].digest = Generate(NewHash(opts), procs[i].before).digest

\* C12: several callers run Generate and Compare on one Hash with a
\* built-in adapter at the same time, each on its own input; under every
\* interleaving of their steps every call returns what it returns when it
\* runs alone, and the Hash stays as NewHash built it.
C12_ConcurrentUse ==
    /\ h = NewHash(opts)
    /\ \A i \in Callers : procs[i].pc = "done" => Agrees(procs[i], Alone(h, procs[i]))

C12_Witness ==
    \E i \in Callers :
        /\ procs[i].pc = "done" /\ procs[i].met
        /\ procs[i].op = "Compare" /\ procs[i].before.type = "io.Reader"
        /\ IsIncremental(h) /\ procs[i].err = NoErr
        /\ \E j \in Callers \ {i} : procs[j].pc = "feed" /\ procs[j].input.pos > 0

\* C21: an option given twice in a row counts once: for every option o and
\* every option list p, NewHash(p..., o, o) is the Hash NewHash(p..., o) is,
\* and every call gives on the one what it gives on the other.
C21_OptionIdempotent ==
    /\ (Len(opts) >= 2 /\ opts[Len(opts)] = opts[Len(opts) - 1])
       => BehavesLike(NewHash(SubSeq(opts, 1, Len(opts) - 1)))
    /\ \A o \in Options : NewHash(opts \o <<o, o>>) = NewHash(opts \o <<o>>)

C21_Witness ==
    /\ Len(opts) = MaxOpts
    /\ opts[Len(opts)] = opts[Len(opts) - 1] /\ opts[Len(opts)].name = "WithSha1sum"
    /\ call.op = "Generate" /\ call.before.type = "string"
    /\ call.err = NoErr /\ Len(call.digest.b) = 20

\* g, a Generate on the stream a call left, gives what e, the Generate of
\* the empty text, gives
GivesEmptyDigest(g, e) == g.err = NoErr /\ e.err = NoErr /\ g.digest = e.digest

C24_GenerateNeverFails ==
    /\ (call.op = "Generate" /\ IsIncremental(h) /\ call.before.type = "string")
       => (call.err = NoErr /\ ~call.digest.nil /\ Len(call.digest.b) > 0 /\ ~call.panic)
    /\ (call.op = "Generate" /\ IsIncremental(h) /\ call.before.type = "io.Reader"
          /\ Read(call.before).err = EOF)
       => (call.err = NoErr /\ call.digest = Generate(h, StringInput(<<>>)).digest)

C24_Witness ==
    /\ call.op = "Generate" /\ IsIncremental(h) /\ call.before.type = "io.Reader"
    /\ call.before.data = <<>> /\ call.before.failAt = NoFail
    /\ call.err = NoErr /\ ~call.digest.nil

\* the operation of the call c on the adapter a
OpOn(a, c) ==
    CASE c.op = "Generate" /\ c.before.type = "string" -> Hasher_GenHashFromString(a, c.before)
      [] c.op = "Generate" /\ c.before.type = "io.Reader" -> Hasher_GenHashFromIOReader(a, c.before)
      [] c.op = "Compare" /\ c.before.type = "string" -> Hasher_CmpHashAndString(a, c.hash, c.before)
      [] c.op = "Compare" /\ c.before.type = "io.Reader" ->
            Hasher_CmpHashAndIOReader(a, c.hash, c.before)

OpOnSha(a, c) ==
    CASE c.op = "Generate" /\ c.before.type = "string" -> shaHasher_GenHashFromString(a, c.before)
      [] c.op = "Generate" /\ c.before.type = "io.Reader" -> shaHasher_GenHashFromIOReader(a, c.before)
      [] c.op = "Compare" /\ c.before.type = "string" -> shaHasher_CmpHashAndString(a, c.hash, c.before)
      [] c.op = "Compare" /\ c.before.type = "io.Reader" ->
            shaHasher_CmpHashAndIOReader(a, c.hash, c.before)

OpOnFnv32(c) ==
    CASE c.op = "Generate" /\ c.before.type = "string" -> fnv32Hasher_GenHashFromString(c.before)
      [] c.op = "Generate" /\ c.before.type = "io.Reader" -> fnv32Hasher_GenHashFromIOReader(c.before)
      [] c.op = "Compare" /\ c.before.type = "string" -> fnv32Hasher_CmpHashAndString(c.hash, c.before)
      [] c.op = "Compare" /\ c.before.type = "io.Reader" ->
            fnv32Hasher_CmpHashAndIOReader(c.hash, c.before)

\* what the operation of the call c returns on every adapter shape that
\* can hold the engine constructor f
ShapeResults(f, c) ==
    {OpOn(Adapter(t, f), c) : t \in {"hasher", "hasher32", "hasher64"}}
        \cup {OpOnSha(Adapter("shaHasher", f), c)}
        \cup (IF f = "md5.New" THEN {OpOn(md5sumHasherLit, c)} ELSE {})
        \cup (IF f = "blake3.New" THEN {OpOn(blake3HasherLit, c)} ELSE {})
        \cup (IF f = "fnv.New32" THEN {OpOnFnv32(c)} ELSE {})

\* C25: the adapter shapes behave alike: over the same engine constructor
\* hasher, hasher32, hasher64 and the dedicated adapters (md5sumHasher,
\* blake3Hasher, shaHasher, fnv32Hasher) return the same result, the same
\* errors included, for each of the four operations on every input.
C25_ShapesAgree ==
    (call.op # "none" /\ IsIncremental(h) /\ call.before.type \in {"string", "io.Reader"})
    => ShapeResults(EngineOf(h.hasher), call) = {Ret(call.digest, call.err, input, call.decoded)}

C25_Witness ==
    /\ call.op = "Compare" /\ h.hasher = newFnv32Hasher /\ WillFail(call.before)
    /\ call.err = ErrRead
    /\ OpOnFnv32(call).err = ErrRead

\* C26: with an input of an unsupported type Generate and Compare invoke no
\* adapter operation (a user-defined adapter sees no call) and leave the
\* Hash and the input as they were: the facade alone rejects the input.
C26_NoAdapterCall ==
    (call.op # "none" /\ call.before.type \notin {"string", "io.Reader"})
    => /\ call.trace = <<>> /\ ~call.decoded /\ ~call.panic
       /\ h = NewHash(opts) /\ input = call.before

C26_Witness ==
    /\ call.op = "Compare" /\ h.hasher = userHashLit /\ call.before.type = "int"
    /\ call.trace = <<>> /\ call.err # NoErr

ReadableFile(c) == ~c.help /\ c.nargs >= 1 /\ c.file.exists /\ c.file.failAt = NoFail

FullDigest(name, data) == SprintfX(Generate(CliHash(name), StringInput(data)).digest.b)

\* C22: for a readable file the JSON map the command prints has one entry
\* for each configured algorithm, and the value of every entry is the
\* hexadecimal digest of the whole content of the file under that
\* algorithm, in whatever order the algorithms are taken.
C22_EveryEntryFullDigest ==
    (cli.pc = "exit" /\ ReadableFile(cli))
    => /\ cli.out = <<JsonText(JsonMarshal(cli.jsonMap))>>
       /\ DOMAIN cli.jsonMap = CliNames
       /\ \A name \in CliNames : cli.jsonMap[name] = FullDigest(name, cli.file.data)

\* the output holds no JSON map
NoJson(out) == \A i \in DOMAIN out : out[i].kind # "json"

\* C29: run with -help prints the help and returns nil, and run without a
\* file argument prints the help and returns "few arguments", in both cases
\* without opening a file and without hashing; when the file cannot be
\* opened or read, or a Generate fails, run returns a wrapped error and no
\* JSON map is printed; a JSON map that is printed has all the algorithms.
C29_ArgumentHandling ==
    /\ (cli.help \/ (cli.pc # "none" /\ cli.nargs < 1))
       => /\ ~cli.opened /\ cli.calls = 0 /\ NoJson(cli.out)
          /\ cli.pc = "exit"
             => /\ cli.out = <<HelpText>>
                /\ cli.err = IF cli.help THEN NoErr ELSE ErrorsNew("few arguments")
    /\ (cli.pc = "exit" /\ ~cli.help /\ cli.nargs >= 1 /\ ~cli.file.exists)
       => (cli.err = Errorf("error opening file", ErrNotExist) /\ cli.calls = 0)
    /\ (cli.pc = "exit" /\ ~cli.help /\ cli.nargs >= 1 /\ cli.err # NoErr)
       => /\ cli.out = <<>>
          /\ cli.err.msg \in {"error opening file", "error generating hash"}
          /\ cli.err.kind \in {ErrNotExist.kind, ErrRead.kind}
    /\ ~NoJson(cli.out)
       => /\ cli.err = NoErr /\ cli.pc = "exit" /\ cli.calls = Cardinality(CliNames)
          /\ cli.out = <<JsonText(JsonMarshal(cli.jsonMap))>>
          /\ DOMAIN cli.jsonMap = CliNames

C29_Witness ==
    /\ cli.pc = "exit" /\ ~cli.help /\ cli.nargs = 1 /\ cli.opened
    /\ cli.file.failAt = 1
    /\ cli.err = Errorf("error generating hash", ErrRead) /\ cli.out = <<>>

\* the adapter of the k-th Hash is the one its own options gave it
OwnAdapter(hp, k) == HashAt(hp, k) = NewHash(hp.made[k])

\* the last call returned what it returns on a Hash built from the same
\* options with nothing else in the program
OwnResult(hp, r) ==
    CASE r.op = "Generate" -> r.err = Generate(NewHash(hp.made[r.on]), r.in).err
      [] r.op = "Compare" -> r.err = Compare(NewHash(hp.made[r.on]), Slice(r.argWas), r.in).err
      [] OTHER -> TRUE

\* C27: the Hashes are independent, there is no default shared by the
\* package: building a Hash with built-in options and calling Generate or
\* Compare on it changes neither the adapter nor the results of another
\* Hash; every NewHash starts from a default (MD5) adapter of its own and
\* every built-in option installs an adapter instance no other Hash holds.
C27_FacadesIndependent ==
    /\ \A k \in DOMAIN heap.hashes : OwnAdapter(heap, k)
    /\ \A k, j \in DOMAIN heap.hashes : k # j => heap.hashes[k].hasher # heap.hashes[j].hasher
    /\ OwnResult(heap, heap.ret)
    /\ (heap.ret.op = "Generate" /\ heap.ret.err = NoErr)
       => heap.bufs[heap.ret.buf] = Generate(NewHash(heap.made[heap.ret.on]), heap.ret.in).digest.b

C27_Witness ==
    /\ Len(heap.hashes) >= 2
    /\ heap.made[1] = <<>> /\ heap.made[2] # <<>>
    /\ heap.ret.op = "Generate" /\ heap.ret.on = 1 /\ heap.ret.err = NoErr
    /\ Len(heap.bufs[heap.ret.buf]) = 16

\* C28: a digest is a value of its own: with a built-in adapter every
\* Generate that succeeds returns a byte sequence in a new array, so
\* writing to a digest returned before changes the result of no later
\* Generate or Compare, and Compare does not write to the digest it is given.
C28_DigestsAreValues ==
    /\ (heap.ret.op = "Generate" /\ heap.ret.err = NoErr)
       => /\ heap.ret.buf = heap.ret.nbufs + 1 /\ Len(heap.bufs) = heap.ret.nbufs + 1
          /\ \A b \in 1..heap.ret.nbufs : heap.ret.buf # b
          /\ heap.bufs[heap.ret.buf]
                = Generate(NewHash(heap.made[heap.ret.on]), heap.ret.in).digest.b
    /\ (heap.ret.op = "Generate" /\ heap.ret.err # NoErr)
       => (heap.ret.buf = 0 /\ Len(heap.bufs) = heap.ret.nbufs)
    /\ heap.ret.op = "Compare"
       => /\ heap.bufs[heap.ret.arg] = heap.ret.argWas /\ Len(heap.bufs) = heap.ret.nbufs
          /\ heap.ret.err
                = Compare(NewHash(heap.made[heap.ret.on]), Slice(heap.ret.argWas), heap.ret.in).err

\* a digest returned before was written to, and Generate of the same input
\* returned the digest as it was before the write
C28_Witness ==
    /\ heap.ret.op = "Generate" /\ heap.ret.err = NoErr /\ heap.ret.buf >= 2
    /\ \E b \in 1..heap.ret.nbufs :
          /\ heap.bufs[b] # heap.bufs[heap.ret.buf]
          /\ heap.bufs[b] = [heap.bufs[heap.ret.buf] EXCEPT ![1] = 255 - @]

====
